---- MODULE Spec2Model ----
(***************************************************************************)
(* Model of the lane-switching MedievalRunner component                    *)
(* (src/src/components/MedievalRunner.tsx, lines 476-1052), and of the     *)
(* steps of the variant without lanes (lines 1-464) it is compared with.   *)
(*                                                                         *)
(* Units.  The source works in floating point; every quantity the          *)
(* simulation compares is a multiple of a fixed step, so the model keeps   *)
(* them as integers:                                                       *)
(*   depth (position.z), speed    : 1 = 0.00001 world units                *)
(*   height (position.y), velocity: 1 = 0.001 world units                  *)
(*   lateral offset (position.x)  : 1 = 1 world unit                       *)
(*                                                                         *)
(* React.  setGameState queues an updater; React applies the queued        *)
(* updaters in order at the next render, commits, and runs the effect      *)
(* cleanups and effects whose dependencies changed.  The render that       *)
(* follows a handler is the action Render; nothing else runs between a     *)
(* handler that queued an update and its render.                           *)
(***************************************************************************)
EXTENDS Integers, Sequences, FiniteSets, TLC

VARIABLES
    gameState,     \* React state: [score, isPlaying, isGameOver, highScore]
    game,          \* gameRef.current: [player: [x, y], obstacles, gems,
                   \* isJumping, jumpVelocity, speed, score, currentLane];
                   \* an obstacle is [id, x, z, h], a gem is [id, x, z]
    animation,     \* the loop's next call: "none", "effect" (the loop effect
                   \* is about to call gameLoop) or "frame" (animationId is a
                   \* pending requestAnimationFrame callback)
    updates,       \* updaters passed to setGameState and not yet rendered
    mounted,       \* the component is mounted
    tick,          \* history: gameLoop calls completed (see Profiles)
    spawned,       \* history: entities created (see Profiles); the next id
    runs,          \* history: runs started so far (startGame calls that
                   \* were not made on top of a start yet to be rendered)
    taken,         \* history: ids of the gems collected in the current run
    prior,         \* history: highScore when the current run started
    last,          \* history: what the last step did (see NoEvent)
    click,         \* "button" while a click on a start button, whose onClick
                   \* has run, is on its way to the window's click listener;
                   \* "none" otherwise
    container,     \* containerRef.current is an element
    initialised,   \* gameRef.current is an object; while it is null, game
                   \* holds the object initGame would store
    resize,        \* handleResize listeners registered on the window
    disposed       \* calls of renderer.dispose() made so far

vars == <<gameState, game, animation, updates, mounted, tick, spawned, runs,
          taken, prior, last, click, container, initialised, resize,
          disposed>>

-----------------------------------------------------------------------------
(* Program constants *)

GroundLevel == 600
JumpImpulse == 250
Gravity == 15
BaseSpeed == 15000
SpeedIncrement == 2
SpawnDepth == -4000000
PlayerDepth == 500000
PassThreshold == 1000000
DepthWindow == 100000
LateralWindow == 1
ClearMargin == 300
GemWindow == 1500
GemPoints == 10
DefaultLane == 1

lanes == <<-2, 0, 2>>

\* obstacle height is 0.9 + Math.random() * 0.7: a value of that range
Heights == {1000}

\* gem.position.y is 1.5 + sin(..) * 0.2, rewritten every tick from the
\* clock: the two ends of that range
GemHeights == {1300, 1700}

Codes == {"Space", "ArrowLeft", "KeyA", "ArrowRight", "KeyD", "Enter"}

-----------------------------------------------------------------------------
(* Bounds of the model.  An entity needs some 290 ticks from the spawn      *)
(* depth to the player, so a run is followed tick by tick over that          *)
(* distance and the choices of the environment are bounded in profiles:      *)
(*   "jump" (Spec): the player of a run that is on jumps (Space, click) and  *)
(*       does not change lanes; tick and spawned count over the behaviour,   *)
(*       so a restart is followed for the ticks that are left;               *)
(*   "steer" (SpecSteer): as "jump", with a player who changes lanes and     *)
(*       does not jump;                                                      *)
(*   "runs" (SpecRuns): run after run with no input while a run is on; tick  *)
(*       and spawned count over the run and start again with startGame;      *)
(*   "pass" (SpecPass): as "jump" with no input while a run is on, followed  *)
(*       PassTicks ticks longer, until the entities of the first ticks have  *)
(*       passed the player and the pass-through threshold.                   *)
(* In every profile every input arrives in the Idle and GameOver phases.     *)

Profiles == {"jump", "steer", "runs", "pass"}

\* the inputs of a run that is on, by profile
RunInputs(p) ==
    IF p = "jump" THEN {"Space", "click", "Enter"}
    ELSE IF p = "steer"
    THEN {"ArrowLeft", "KeyA", "ArrowRight", "KeyD", "Enter"}
    ELSE {}

\* entities created while spawned counts
MaxSpawns == 2
\* a spawn draw can succeed only in the first ticks: RunSpawnTicks of them in
\* profile "runs", SpawnTicks in the others
SpawnTicks == 2
RunSpawnTicks == 1
\* the inputs of a run that is on arrive in the InputTicks ticks from
\* InputFrom on, one between two ticks
InputFrom == 269
InputTicks == 4
\* gameLoop calls while tick counts
MaxTick == 304
\* further gameLoop calls in profile "pass"
PassTicks == 30
\* runs started in one behaviour
MaxRuns == 2

-----------------------------------------------------------------------------
(* Helpers *)

Abs(n) == IF n < 0 THEN -n ELSE n

Max(a, b) == IF a >= b THEN a ELSE b

\* splice at the index after the one asked for
SpliceNext(arr, index) ==
    IF index + 1 < Len(arr)
    THEN SubSeq(arr, 1, index + 1) \o SubSeq(arr, index + 3, Len(arr))
    ELSE arr

\* Array.prototype.splice(index, 1) on a 0-based index
Splice(arr, index) ==
    IF index < Len(arr)
    THEN SubSeq(arr, 1, index) \o SubSeq(arr, index + 2, Len(arr))
    ELSE arr

Phase ==
    IF gameState.isPlaying THEN "Playing"
    ELSE IF gameState.isGameOver THEN "GameOver"
    ELSE "Idle"

\* what the last step did.  A tick: whether it landed the player, how many
\* gems of its collection pass the collection test once moved, and how many
\* it collected.  A listener: the input it handled (a key code, "click" for
\* the window's click listener, "button" for a start button's onClick) and
\* the lane index it found.
NoEvent ==
    [landed |-> FALSE, qualifying |-> 0, collected |-> 0, input |-> "none",
     lane |-> DefaultLane]

-----------------------------------------------------------------------------
(* initGame: the object stored in gameRef.current *)

InitialGame ==
    [player |-> [x |-> 0, y |-> GroundLevel],
     obstacles |-> <<>>,
     gems |-> <<>>,
     isJumping |-> FALSE,
     jumpVelocity |-> 0,
     speed |-> BaseSpeed,
     score |-> 0,
     currentLane |-> DefaultLane]

InitialGameState ==
    [score |-> 0, isPlaying |-> FALSE, isGameOver |-> FALSE, highScore |-> 0]

\* initGame called while gameRef.current is null and n resize listeners are
\* registered: without a container it returns at once; with one it stores
\* the object and registers handleResize.  Both callers drop the cleanup
\* function it returns.
initGame(has, n) ==
    IF ~has THEN [initialised |-> FALSE, resize |-> n]
    ELSE [initialised |-> TRUE, resize |-> n + 1]

-----------------------------------------------------------------------------
(* Input operations on gameRef.current *)

\* jump without the airborne check
jumpAlways(g) == [g EXCEPT !.isJumping = TRUE, !.jumpVelocity = JumpImpulse]

jump(g) ==
    IF g.isJumping THEN g
    ELSE [g EXCEPT !.isJumping = TRUE, !.jumpVelocity = JumpImpulse]

\* moveLeft without the check of the lane index
moveLeftNoBound(g) ==
    [g EXCEPT !.currentLane = @ - 1, !.player.x = 2 * (g.currentLane - 2)]

moveLeft(g) ==
    IF g.currentLane > 0
    THEN [g EXCEPT !.currentLane = @ - 1,
                   !.player.x = lanes[g.currentLane - 1 + 1]]
    ELSE g

moveRight(g) ==
    IF g.currentLane < 2
    THEN [g EXCEPT !.currentLane = @ + 1,
                   !.player.x = lanes[g.currentLane + 1 + 1]]
    ELSE g

\* startGame with the lane reset left out
startGameKeepsLane(g) ==
    [g EXCEPT !.obstacles = <<>>,
              !.gems = <<>>,
              !.player = [x |-> 0, y |-> GroundLevel],
              !.speed = BaseSpeed,
              !.score = 0]

\* startGame with the speed reset left out
startGameKeepsSpeed(g) ==
    [g EXCEPT !.obstacles = <<>>,
              !.gems = <<>>,
              !.player = [x |-> 0, y |-> GroundLevel],
              !.score = 0,
              !.currentLane = DefaultLane]

\* the reset block of startGame; isJumping and jumpVelocity are not assigned
startGame(g) ==
    [g EXCEPT !.obstacles = <<>>,
              !.gems = <<>>,
              !.player = [x |-> 0, y |-> GroundLevel],
              !.speed = BaseSpeed,
              !.score = 0,
              !.currentLane = DefaultLane]

-----------------------------------------------------------------------------
(* gameLoop: one simulation step *)

\* jump physics without gravity
JumpPhysicsNoGravity(y, v, jumping) ==
    IF jumping
    THEN IF y + v <= GroundLevel
         THEN [y |-> GroundLevel, v |-> 0, jumping |-> FALSE, landed |-> TRUE]
         ELSE [y |-> y + v, v |-> v, jumping |-> TRUE, landed |-> FALSE]
    ELSE [y |-> y, v |-> v, jumping |-> FALSE, landed |-> FALSE]

\* jump physics whose landing leaves the velocity as the fall left it
JumpPhysicsKeepsVelocity(y, v, jumping) ==
    IF jumping
    THEN IF y + v <= GroundLevel
         THEN [y |-> GroundLevel, v |-> v - Gravity, jumping |-> FALSE,
               landed |-> TRUE]
         ELSE [y |-> y + v, v |-> v - Gravity, jumping |-> TRUE,
               landed |-> FALSE]
    ELSE [y |-> y, v |-> v, jumping |-> FALSE, landed |-> FALSE]

\* jump physics that ends the jump without putting the player on the ground
JumpPhysicsNoClamp(y, v, jumping) ==
    IF jumping
    THEN IF y + v <= GroundLevel
         THEN [y |-> y + v, v |-> 0, jumping |-> FALSE, landed |-> TRUE]
         ELSE [y |-> y + v, v |-> v - Gravity, jumping |-> TRUE,
               landed |-> FALSE]
    ELSE [y |-> y, v |-> v, jumping |-> FALSE, landed |-> FALSE]

\* jump physics: the new [y, v, jumping, landed]
JumpPhysics(y, v, jumping) ==
    IF jumping
    THEN IF y + v <= GroundLevel
         THEN [y |-> GroundLevel, v |-> 0, jumping |-> FALSE, landed |-> TRUE]
         ELSE [y |-> y + v, v |-> v - Gravity, jumping |-> TRUE,
               landed |-> FALSE]
    ELSE [y |-> y, v |-> v, jumping |-> FALSE, landed |-> FALSE]

\* a collision test that wants the obstacle at the very depth of the player
CollidesExact(o, px, py) ==
    /\ Abs(o.x - px) < LateralWindow
    /\ o.z = PlayerDepth
    /\ py < o.h + ClearMargin

\* the collision test of an obstacle whose depth has been advanced
Collides(o, px, py) ==
    /\ Abs(o.x - px) < LateralWindow
    /\ Abs(o.z - PlayerDepth) < DepthWindow
    /\ py < o.h + ClearMargin

\* the collection test of a gem whose depth has been advanced
Collects(gem, px, py) ==
    /\ Abs(gem.x - px) < LateralWindow
    /\ Abs(gem.z - PlayerDepth) < DepthWindow
    /\ Abs(gem.y - py) < GemWindow

\* no entity counts as passed
PassedNever(e) == FALSE

Passed(e) == e.z > PassThreshold

\* obstacles.forEach((obstacle, index) => ...): index k runs over the length
\* the array had when forEach was called, and an index the array no longer
\* has is not visited.  The return after setGameState leaves the callback of
\* one obstacle, not the loop.  reports counts the setGameState calls.
RECURSIVE ObstacleLoop(_, _, _, _, _, _, _)
ObstacleLoop(obs, k, n, px, py, sp, reports) ==
    IF k >= n THEN [obstacles |-> obs, reports |-> reports]
    ELSE IF k >= Len(obs) THEN ObstacleLoop(obs, k + 1, n, px, py, sp, reports)
    ELSE LET o == [obs[k + 1] EXCEPT !.z = @ + sp]
             moved == [obs EXCEPT ![k + 1] = o]
         IN  IF Collides(o, px, py)
             THEN ObstacleLoop(moved, k + 1, n, px, py, sp, reports + 1)
             ELSE IF Passed(o)
             THEN ObstacleLoop(Splice(moved, k), k + 1, n, px, py, sp, reports)
             ELSE ObstacleLoop(moved, k + 1, n, px, py, sp, reports)

\* gems.forEach((gem, index) => ...): both tests are made on the visited gem,
\* and each splices at the visited index.  got collects the ids of the
\* collected gems, one setGameState call each.
RECURSIVE GemLoop(_, _, _, _, _, _, _, _)
GemLoop(gs, k, n, px, py, sp, sc, got) ==
    IF k >= n THEN [gems |-> gs, score |-> sc, got |-> got]
    ELSE IF k >= Len(gs) THEN GemLoop(gs, k + 1, n, px, py, sp, sc, got)
    ELSE LET gem == [gs[k + 1] EXCEPT !.z = @ + sp]
             moved == [gs EXCEPT ![k + 1] = gem]
             hit == Collects(gem, px, py)
             afterCollect == IF hit THEN Splice(moved, k) ELSE moved
             afterPass == IF Passed(gem) THEN Splice(afterCollect, k)
                          ELSE afterCollect
         IN  GemLoop(afterPass, k + 1, n, px, py, sp,
                     IF hit THEN sc + GemPoints ELSE sc,
                     IF hit THEN Append(got, gem.id) ELSE got)

\* createObstacle / createGem: the random draws of one tick
NoDraw == [spawn |-> FALSE, lane |-> 0, h |-> 0]

ObstacleDraws(allowed) ==
    {NoDraw} \cup
    (IF allowed
     THEN {[spawn |-> TRUE, lane |-> l, h |-> h] : l \in 0..2, h \in Heights}
     ELSE {})

GemDraws(allowed) ==
    {NoDraw} \cup
    (IF allowed
     THEN {[spawn |-> TRUE, lane |-> l, h |-> 0] : l \in 0..2}
     ELSE {})

\* createObstacle that puts the obstacle where a tick's move would take it
createObstacleMoved(obs, id, draw) ==
    Append(obs, [id |-> id, x |-> lanes[draw.lane + 1],
                 z |-> SpawnDepth + BaseSpeed, h |-> draw.h])

createObstacle(obs, id, draw) ==
    Append(obs, [id |-> id, x |-> lanes[draw.lane + 1], z |-> SpawnDepth,
                 h |-> draw.h])

\* createGem that puts the gem between two lanes
createGemOffLane(gs, id, draw) ==
    Append(gs, [id |-> id, x |-> lanes[draw.lane + 1] + 1, z |-> SpawnDepth])

createGem(gs, id, draw) ==
    Append(gs, [id |-> id, x |-> lanes[draw.lane + 1], z |-> SpawnDepth])

\* the body of gameLoop after its guard.  bob[i] is the height the "rotate
\* gems" pass gives gem i, od and gd are the spawn draws, nextId the id of
\* the next entity.
gameLoop(g, bob, od, gd, nextId) ==
    LET jp == JumpPhysics(g.player.y, g.jumpVelocity, g.isJumping)
        px == g.player.x
        ol == ObstacleLoop(g.obstacles, 0, Len(g.obstacles), px, jp.y,
                           g.speed, 0)
        bobbed == [i \in 1..Len(g.gems) |->
                     [id |-> g.gems[i].id, x |-> g.gems[i].x,
                      z |-> g.gems[i].z, y |-> bob[i]]]
        gl == GemLoop(bobbed, 0, Len(bobbed), px, jp.y, g.speed, g.score,
                      <<>>)
        kept == [i \in 1..Len(gl.gems) |->
                   [id |-> gl.gems[i].id, x |-> gl.gems[i].x,
                    z |-> gl.gems[i].z]]
        obs2 == IF od.spawn THEN createObstacle(ol.obstacles, nextId, od)
                ELSE ol.obstacles
        gemId == IF od.spawn THEN nextId + 1 ELSE nextId
        gems2 == IF gd.spawn THEN createGem(kept, gemId, gd) ELSE kept
    IN  [game |-> [g EXCEPT !.player.y = jp.y,
                            !.jumpVelocity = jp.v,
                            !.isJumping = jp.jumping,
                            !.obstacles = obs2,
                            !.gems = gems2,
                            !.score = gl.score,
                            !.speed = @ + SpeedIncrement],
         reports |-> ol.reports,
         got |-> gl.got,
         landed |-> jp.landed,
         qualifying |->
             Cardinality({i \in 1..Len(bobbed) :
                 Collects([bobbed[i] EXCEPT !.z = @ + g.speed], px, jp.y)})]

\* the heights the "rotate gems" pass can give n gems.  The pass takes them
\* from the clock; a height is read by the collection test alone, so when
\* every height of the range gives the test the same answer for a player at
\* py one assignment stands for all.
Bobs(n, py) ==
    IF \A a, b \in GemHeights :
           (Abs(a - py) < GemWindow) = (Abs(b - py) < GemWindow)
    THEN {[i \in 1..n |-> CHOOSE h \in GemHeights : TRUE]}
    ELSE [1..n -> GemHeights]

-----------------------------------------------------------------------------
(* The updaters passed to setGameState; sc is gameRef.current.score when     *)
(* React runs the updater                                                    *)

\* the start updater that leaves isGameOver as it was
StartUpdateKeepsGameOver(prev) ==
    [prev EXCEPT !.score = 0, !.isPlaying = TRUE]

\* the start updater written without the spread of prev
StartUpdateFresh(prev) ==
    [score |-> 0, isPlaying |-> TRUE, isGameOver |-> FALSE, highScore |-> 0]

StartUpdate(prev) ==
    [prev EXCEPT !.score = 0, !.isPlaying = TRUE, !.isGameOver = FALSE]

\* the game-over updater that forgets to raise isGameOver
GameOverUpdateNoFlag(prev, sc) ==
    [prev EXCEPT !.isPlaying = FALSE, !.highScore = Max(prev.highScore, sc)]

\* the game-over updater with the run's score in place of the maximum
GameOverUpdateNoMax(prev, sc) ==
    [prev EXCEPT !.isPlaying = FALSE, !.isGameOver = TRUE, !.highScore = sc]

GameOverUpdate(prev, sc) ==
    [prev EXCEPT !.isPlaying = FALSE, !.isGameOver = TRUE,
                 !.highScore = Max(prev.highScore, sc)]

ScoreUpdate(prev, sc) == [prev EXCEPT !.score = sc]

RECURSIVE ApplyUpdates(_, _, _)
ApplyUpdates(prev, ups, sc) ==
    IF ups = <<>> THEN prev
    ELSE LET u == Head(ups)
             next == IF u = "start" THEN StartUpdate(prev)
                     ELSE IF u = "gameOver" THEN GameOverUpdate(prev, sc)
                     ELSE ScoreUpdate(prev, sc)
         IN  ApplyUpdates(next, Tail(ups), sc)

\* the loop effect with a cleanup that cancels nothing
LoopEffectNoCancel(was, now, anim) ==
    IF was = now THEN anim
    ELSE IF now THEN "effect"
    ELSE anim

\* the loop effect (deps: gameState.isPlaying, gameLoop): when isPlaying
\* changes, the cleanup cancels animationId and the effect calls gameLoop if
\* the game is playing
LoopEffect(was, now, anim) ==
    IF was = now THEN anim
    ELSE IF now THEN "effect"
    ELSE "none"

\* the cleanups that run when the component unmounts
UnmountCleanup(anim) == "none"

\* the cleanup of the mount effect disposes of the renderer of
\* gameRef.current, if there is one; n counts the dispose calls
MountCleanup(set, n) == IF set THEN n + 1 ELSE n

-----------------------------------------------------------------------------
(* Key and click handlers: the game after the handler, and whether it called *)
(* startGame                                                                 *)

\* handleKeyDown with the lane keys handled in every phase
handleKeyDownAnyPhase(code, gs, g) ==
    LET space ==
            IF code = "Space"
            THEN IF gs.isPlaying
                 THEN [game |-> jump(g), start |-> FALSE]
                 ELSE [game |-> startGame(g), start |-> TRUE]
            ELSE [game |-> g, start |-> FALSE]
        left == IF code \in {"ArrowLeft", "KeyA"}
                THEN moveLeft(space.game) ELSE space.game
        right == IF code \in {"ArrowRight", "KeyD"}
                 THEN moveRight(left) ELSE left
    IN  [game |-> right, start |-> space.start]

handleKeyDown(code, gs, g) ==
    LET space ==
            IF code = "Space"
            THEN IF ~gs.isPlaying /\ ~gs.isGameOver
                 THEN [game |-> startGame(g), start |-> TRUE]
                 ELSE IF gs.isPlaying
                 THEN [game |-> jump(g), start |-> FALSE]
                 ELSE IF gs.isGameOver
                 THEN [game |-> startGame(g), start |-> TRUE]
                 ELSE [game |-> g, start |-> FALSE]
            ELSE [game |-> g, start |-> FALSE]
        left == IF gs.isPlaying /\ code \in {"ArrowLeft", "KeyA"}
                THEN moveLeft(space.game) ELSE space.game
        right == IF gs.isPlaying /\ code \in {"ArrowRight", "KeyD"}
                 THEN moveRight(left) ELSE left
    IN  [game |-> right, start |-> space.start]

handleClick(gs, g) ==
    IF ~gs.isPlaying /\ ~gs.isGameOver
    THEN [game |-> startGame(g), start |-> TRUE]
    ELSE IF gs.isPlaying
    THEN [game |-> jump(g), start |-> FALSE]
    ELSE [game |-> g, start |-> FALSE]

-----------------------------------------------------------------------------
(* The state machine *)

\* the component after its first commit: the mount effect has called
\* initGame, the loop effect has found isPlaying false
Mounted(has) ==
    /\ gameState = InitialGameState
    /\ game = InitialGame
    /\ animation = "none"
    /\ updates = <<>>
    /\ mounted = TRUE
    /\ tick = 0
    /\ spawned = 0
    /\ runs = 0
    /\ taken = {}
    /\ prior = 0
    /\ last = NoEvent
    /\ click = "none"
    /\ container = has
    /\ initialised = initGame(has, 0).initialised
    /\ resize = initGame(has, 0).resize
    /\ disposed = 0

\* React attaches the ref of the container, which every render returns,
\* before it runs the effects
Init == Mounted(TRUE)

\* the component mounted with or without its container
InitSurface == \E has \in BOOLEAN : Mounted(has)

\* no handler runs between a setGameState and its render, nor between the
\* commit that starts the loop and the effect's call of gameLoop, nor while
\* a click is being dispatched
Quiet == mounted /\ updates = <<>> /\ animation # "effect" /\ click = "none"

\* while a run is on, the player gives at most one input between two ticks
InputAllowed(p, input) ==
    gameState.isPlaying =>
        /\ input \in RunInputs(p)
        /\ tick >= InputFrom
        /\ tick < InputFrom + InputTicks
        /\ last.input = "none"

SpawnAllowed(p, made) ==
    /\ made < MaxSpawns
    /\ tick < (IF p = "runs" THEN RunSpawnTicks ELSE SpawnTicks)

\* the result r of the listener of input taken over by the state.  jump,
\* moveLeft and moveRight return at once while gameRef.current is null;
\* startGame calls initGame first and resets the object if there is one.
Handled(r, p, input) ==
    /\ (r.start /\ updates = <<>>) => runs < MaxRuns
    /\ LET init == IF r.start /\ ~initialised
                   THEN initGame(container, resize)
                   ELSE [initialised |-> initialised, resize |-> resize]
       IN  /\ initialised' = init.initialised
           /\ resize' = init.resize
           /\ game' = IF init.initialised THEN r.game ELSE game
    /\ updates' = IF r.start THEN Append(updates, "start") ELSE updates
    /\ runs' = IF r.start /\ updates = <<>> THEN runs + 1 ELSE runs
    /\ taken' = IF r.start THEN {} ELSE taken
    /\ prior' = IF r.start THEN gameState.highScore ELSE prior
    /\ tick' = IF r.start /\ p = "runs" THEN 0 ELSE tick
    /\ spawned' = IF r.start /\ p = "runs" THEN 0 ELSE spawned
    /\ last' = [NoEvent EXCEPT !.input = input, !.lane = game.currentLane]
    /\ UNCHANGED <<gameState, animation, mounted, container, disposed>>

HandleKeyDown(p) ==
    /\ Quiet
    /\ \E code \in Codes :
         /\ InputAllowed(p, code)
         /\ Handled(handleKeyDown(code, gameState, game), p, code)
    /\ UNCHANGED click

\* the window's click listener, for a click of its own or for the click on a
\* start button that has bubbled up to the window.  The listener that runs
\* is the one registered by the last commit, so its closure holds the
\* gameState of the model: for a button click either React has not rendered
\* the start yet (updates is <<"start">>), or it has rendered it, run the
\* effects and with them the first gameLoop call.
HandleClick(p) ==
    /\ \/ Quiet /\ InputAllowed(p, "click")
       \/ mounted /\ click = "button" /\ animation # "effect"
    /\ Handled(handleClick(gameState, game), p, "click")
    /\ click' = "none"

\* onClick of the "Begin Quest" button (rendered in the Idle phase) and of
\* the "Try Again" button (rendered in the GameOver phase): startGame
ClickButton(p) ==
    /\ Quiet
    /\ ~gameState.isPlaying
    /\ Handled([game |-> startGame(game), start |-> TRUE], p, "button")
    /\ click' = "button"

\* one call of gameLoop, from the loop effect or from the frame callback;
\* the callback was created by a render in which isPlaying was true
Tick(p) ==
    /\ mounted
    /\ updates = <<>>
    /\ animation \in {"effect", "frame"}
    /\ click = "button" => animation = "effect"
    /\ IF ~initialised
       THEN \* the guard returns: no step, no frame requested
            /\ animation' = "none"
            /\ UNCHANGED <<game, updates, taken, spawned, last, tick>>
       ELSE /\ tick < MaxTick + (IF p = "pass" THEN PassTicks ELSE 0)
            /\ \E bob \in Bobs(Len(game.gems),
                               JumpPhysics(game.player.y, game.jumpVelocity,
                                           game.isJumping).y),
                  od \in ObstacleDraws(SpawnAllowed(p, spawned)) :
                 \E gd \in GemDraws(SpawnAllowed(p, spawned
                                        + (IF od.spawn THEN 1 ELSE 0))) :
                   LET r == gameLoop(game, bob, od, gd, spawned + 1)
                   IN  /\ game' = r.game
                       /\ updates' = [i \in 1..r.reports |-> "gameOver"]
                                     \o [i \in 1..Len(r.got) |-> "score"]
                       /\ taken' = taken \cup {r.got[i] : i \in 1..Len(r.got)}
                       /\ spawned' = spawned + (IF od.spawn THEN 1 ELSE 0)
                                             + (IF gd.spawn THEN 1 ELSE 0)
                       /\ last' = [NoEvent EXCEPT !.landed = r.landed,
                                                   !.qualifying = r.qualifying,
                                                   !.collected = Len(r.got)]
            /\ animation' = "frame"
            /\ tick' = tick + 1
    /\ UNCHANGED <<gameState, mounted, runs, prior, click, container,
                   initialised, resize, disposed>>

\* React renders the queued updaters, commits and runs the effects
Render ==
    /\ mounted
    /\ updates # <<>>
    /\ gameState' = ApplyUpdates(gameState, updates, game.score)
    /\ animation' = LoopEffect(gameState.isPlaying, gameState'.isPlaying,
                               animation)
    /\ updates' = <<>>
    /\ UNCHANGED <<game, mounted, tick, spawned, runs, taken, prior, last,
                   click, container, initialised, resize, disposed>>

\* the component unmounts: both effect cleanups cancel animationId and the
\* cleanup of the mount effect disposes of the renderer.  Nothing reads the
\* React state, the fields of gameRef.current or the history of an unmounted
\* component again, so the model lets them go.
Unmount ==
    /\ Quiet
    /\ mounted' = FALSE
    /\ animation' = UnmountCleanup(animation)
    /\ gameState' = InitialGameState
    /\ game' = InitialGame
    /\ tick' = 0
    /\ spawned' = 0
    /\ runs' = 0
    /\ taken' = {}
    /\ prior' = 0
    /\ last' = NoEvent
    /\ disposed' = MountCleanup(initialised, disposed)
    /\ UNCHANGED <<updates, click, container, initialised, resize>>

Next(p) ==
    \/ HandleKeyDown(p)
    \/ HandleClick(p)
    \/ ClickButton(p)
    \/ Tick(p)
    \/ Render
    \/ Unmount

Spec == Init /\ [][Next("jump")]_vars

SpecSteer == Init /\ [][Next("steer")]_vars

SpecRuns == Init /\ [][Next("runs")]_vars

SpecPass == Init /\ [][Next("pass")]_vars

\* the runs of a component whose container may be missing
SpecSurface == InitSurface /\ [][Next("runs")]_vars

-----------------------------------------------------------------------------
(* The variant of the component without lanes (lines 1-464 of the same      *)
(* file).  Its gameRef.current has no currentLane; the text of its initGame  *)
(* guard, updaters, effects, jump physics, collision, collection and         *)
(* pass-through tests is that of the lane variant, so the operators above    *)
(* stand for both.                                                           *)

\* obstacle height is 0.8 + Math.random() * 0.8: the value drawn above and
\* one below the range of the lane variant
HeightsPlain == {800, 1000}

lanesPlain == <<-2, 0, 2>>

\* a game object seen without its lane index
Plain(g) ==
    [player |-> g.player,
     obstacles |-> g.obstacles,
     gems |-> g.gems,
     isJumping |-> g.isJumping,
     jumpVelocity |-> g.jumpVelocity,
     speed |-> g.speed,
     score |-> g.score]

InitialGamePlain ==
    [player |-> [x |-> 0, y |-> GroundLevel],
     obstacles |-> <<>>,
     gems |-> <<>>,
     isJumping |-> FALSE,
     jumpVelocity |-> 0,
     speed |-> BaseSpeed,
     score |-> 0]

jumpPlain(g) ==
    IF g.isJumping THEN g
    ELSE [g EXCEPT !.isJumping = TRUE, !.jumpVelocity = JumpImpulse]

startGamePlain(g) ==
    [g EXCEPT !.obstacles = <<>>,
              !.gems = <<>>,
              !.player = [x |-> 0, y |-> GroundLevel],
              !.speed = BaseSpeed,
              !.score = 0]

ObstacleDrawsPlain ==
    {NoDraw} \cup
    {[spawn |-> TRUE, lane |-> l, h |-> h] : l \in 0..2, h \in HeightsPlain}

createObstaclePlain(obs, id, draw) ==
    Append(obs, [id |-> id, x |-> lanesPlain[draw.lane + 1], z |-> SpawnDepth,
                 h |-> draw.h])

createGemPlain(gs, id, draw) ==
    Append(gs, [id |-> id, x |-> lanesPlain[draw.lane + 1], z |-> SpawnDepth])

gameLoopPlain(g, bob, od, gd, nextId) ==
    LET jp == JumpPhysics(g.player.y, g.jumpVelocity, g.isJumping)
        px == g.player.x
        ol == ObstacleLoop(g.obstacles, 0, Len(g.obstacles), px, jp.y,
                           g.speed, 0)
        bobbed == [i \in 1..Len(g.gems) |->
                     [id |-> g.gems[i].id, x |-> g.gems[i].x,
                      z |-> g.gems[i].z, y |-> bob[i]]]
        gl == GemLoop(bobbed, 0, Len(bobbed), px, jp.y, g.speed, g.score,
                      <<>>)
        kept == [i \in 1..Len(gl.gems) |->
                   [id |-> gl.gems[i].id, x |-> gl.gems[i].x,
                    z |-> gl.gems[i].z]]
        obs2 == IF od.spawn THEN createObstaclePlain(ol.obstacles, nextId, od)
                ELSE ol.obstacles
        gemId == IF od.spawn THEN nextId + 1 ELSE nextId
        gems2 == IF gd.spawn THEN createGemPlain(kept, gemId, gd) ELSE kept
    IN  [game |-> [g EXCEPT !.player.y = jp.y,
                            !.jumpVelocity = jp.v,
                            !.isJumping = jp.jumping,
                            !.obstacles = obs2,
                            !.gems = gems2,
                            !.score = gl.score,
                            !.speed = @ + SpeedIncrement],
         reports |-> ol.reports,
         got |-> gl.got]

handleKeyDownPlain(code, gs, g) ==
    IF code = "Space"
    THEN IF ~gs.isPlaying /\ ~gs.isGameOver
         THEN [game |-> startGamePlain(g), start |-> TRUE]
         ELSE IF gs.isPlaying
         THEN [game |-> jumpPlain(g), start |-> FALSE]
         ELSE IF gs.isGameOver
         THEN [game |-> startGamePlain(g), start |-> TRUE]
         ELSE [game |-> g, start |-> FALSE]
    ELSE [game |-> g, start |-> FALSE]

handleClickPlain(gs, g) ==
    IF ~gs.isPlaying /\ ~gs.isGameOver
    THEN [game |-> startGamePlain(g), start |-> TRUE]
    ELSE IF gs.isPlaying
    THEN [game |-> jumpPlain(g), start |-> FALSE]
    ELSE [game |-> g, start |-> FALSE]

\* the result r of a listener of the variant without lanes, as Handled
HandledPlain(r) ==
    /\ mounted
    /\ initialised
    /\ UNCHANGED <<gameState, animation, mounted>>
    /\ updates' = IF r.start THEN Append(updates, "start") ELSE updates
    /\ Plain(game') = r.game

\* a step of the variant without lanes, on the variables the two variants
\* have in common and with game seen as Plain(game)
NextPlain ==
    \/ \E code \in Codes :
           HandledPlain(handleKeyDownPlain(code, gameState, Plain(game)))
    \/ HandledPlain(handleClickPlain(gameState, Plain(game)))
    \/ /\ ~gameState.isPlaying
       /\ HandledPlain([game |-> startGamePlain(Plain(game)), start |-> TRUE])
    \/ /\ mounted
       /\ initialised
       /\ updates = <<>>
       /\ animation \in {"effect", "frame"}
       /\ animation' = "frame"
       /\ UNCHANGED <<gameState, mounted>>
       /\ \E bob \in Bobs(Len(game.gems),
                          JumpPhysics(game.player.y, game.jumpVelocity,
                                      game.isJumping).y),
             od \in ObstacleDrawsPlain, gd \in GemDraws(TRUE) :
            LET r == gameLoopPlain(Plain(game), bob, od, gd, spawned + 1)
            IN  /\ Plain(game') = r.game
                /\ updates' = [i \in 1..r.reports |-> "gameOver"]
                              \o [i \in 1..Len(r.got) |-> "score"]
    \/ /\ mounted
       /\ updates # <<>>
       /\ gameState' = ApplyUpdates(gameState, updates, game.score)
       /\ animation' = LoopEffect(gameState.isPlaying, gameState'.isPlaying,
                                  animation)
       /\ updates' = <<>>
       /\ Plain(game') = Plain(game)
       /\ mounted'
    \/ /\ mounted
       /\ ~mounted'
       /\ animation' = UnmountCleanup(animation)
       /\ gameState' = InitialGameState
       /\ Plain(game') = InitialGamePlain
       /\ updates' = updates

-----------------------------------------------------------------------------
(* Claims *)

GameOverReports == Cardinality({i \in DOMAIN updates : updates[i] = "gameOver"})

Reset(g) ==
    /\ g.score = 0
    /\ g.speed = BaseSpeed
    /\ g.obstacles = <<>>
    /\ g.gems = <<>>

\* C1: in every reachable state the player's vertical position is at or
\* above ground level.
C1_NeverBelowGround == game.player.y >= GroundLevel

\* a tick has just brought a falling player back to the ground
C1_Landed == last.landed /\ game.player.y = GroundLevel /\ ~game.isJumping

\* C2 (as claimed): one tick reports GameOver to the state machine at most
\* once, however many obstacles pass the collision test in it.
C2_ReportedOnce == GameOverReports <= 1

\* C3 (as claimed): right after startGame the player is not airborne, has
\* no vertical velocity and stands in the default lane at ground level.
C3_StartGrounds ==
    updates = <<"start">> =>
        /\ ~game.isJumping
        /\ game.jumpVelocity = 0
        /\ game.currentLane = DefaultLane
        /\ game.player = [x |-> 0, y |-> GroundLevel]

\* C4: startGame called in the GameOver phase resets the simulation (score
\* 0, base speed, no obstacles, no gems), and the render that follows shows
\* score 0 in the Playing phase.
C4_RestartResets ==
    /\ (updates = <<"start">> /\ gameState.isGameOver) => Reset(game)
    /\ (animation = "effect" /\ runs > 1) =>
           /\ Reset(game)
           /\ gameState.score = 0
           /\ Phase = "Playing"

\* a restart has been rendered after a run that scored and sped up
C4_Restarted ==
    /\ animation = "effect"
    /\ runs > 1
    /\ gameState.highScore > 0
    /\ tick > InputFrom

\* C5: in every GameOver state highScore is the maximum of the run's final
\* score and the highScore the run started with, and so at least the score
\* shown, also when the tick that detected the collision collected gems.
C5_HighScoreIsMax ==
    (Phase = "GameOver" /\ updates = <<>>) =>
        /\ gameState.highScore = Max(game.score, prior)
        /\ gameState.score = game.score
        /\ gameState.highScore >= gameState.score

\* a run has ended in the tick that also collected a gem
C5_GemInCollisionTick ==
    /\ Phase = "GameOver"
    /\ updates = <<>>
    /\ last.collected > 0
    /\ gameState.score > 0

\* C6: no step lowers highScore, and the render of a start leaves it as it
\* was.
C6_HighScoreMonotone ==
    [][mounted' =>
          /\ gameState'.highScore >= gameState.highScore
          /\ (updates = <<"start">>
                => gameState'.highScore = gameState.highScore)]_vars

\* a later run has ended with a lower score than the highScore it started
\* with
C6_LowerSecondRun ==
    /\ Phase = "GameOver"
    /\ updates = <<>>
    /\ runs > 1
    /\ game.score < prior
    /\ gameState.highScore = prior

\* C7 (as claimed): the tick that detects a collision changes neither the
\* score nor the speed nor the gems.
C7_FrozenOnCollision ==
    [][(updates = <<>> /\ GameOverReports' > 0) =>
          /\ game'.score = game.score
          /\ game'.speed = game.speed
          /\ game'.gems = game.gems]_vars

C9_AllCollected == last.collected = last.qualifying

\* C10: the score is ten times the number of gems collected in the run, each
\* counted once, and no collected gem is in the active collection.
C10_CountedOnce ==
    /\ game.score = GemPoints * Cardinality(taken)
    /\ \A i \in DOMAIN game.gems : game.gems[i].id \notin taken

\* two gems have been collected in one run
C10_TwoCollected == Cardinality(taken) = 2 /\ game.score = 2 * GemPoints

\* C11 (as claimed): a tick advances the depth of every obstacle and every
\* gem that was active when it began and is still active when it ends by the
\* speed the tick began with, whatever the tick removed.
C11_AllAdvanced ==
    [][tick' = tick + 1 =>
          /\ \A i \in DOMAIN game.gems : \A j \in DOMAIN game'.gems :
                 game'.gems[j].id = game.gems[i].id
                     => game'.gems[j].z = game.gems[i].z + game.speed
          /\ \A i \in DOMAIN game.obstacles : \A j \in DOMAIN game'.obstacles :
                 game'.obstacles[j].id = game.obstacles[i].id
                     => game'.obstacles[j].z = game.obstacles[i].z + game.speed
      ]_vars

\* C12: no state holds an obstacle or a gem whose depth is beyond the
\* pass-through threshold: the tick that takes an entity over the threshold
\* removes it, and the collections hold no entity twice.
C12_NoPassedEntity ==
    /\ \A i \in DOMAIN game.obstacles : game.obstacles[i].z <= PassThreshold
    /\ \A i \in DOMAIN game.gems : game.gems[i].z <= PassThreshold
    /\ \A i, j \in DOMAIN game.obstacles :
           game.obstacles[i].id = game.obstacles[j].id => i = j
    /\ \A i, j \in DOMAIN game.gems : game.gems[i].id = game.gems[j].id => i = j

\* the entities spawned in the first run were neither hit nor collected and
\* have all been removed past the threshold
C12_Pruned ==
    /\ Phase = "Playing"
    /\ runs = 1
    /\ spawned = MaxSpawns
    /\ taken = {}
    /\ game.obstacles = <<>>
    /\ game.gems = <<>>

\* C13 (as claimed): the Space key and a click on the window start a run
\* when the phase is Idle or GameOver and make the player jump when the phase
\* is Playing.
C13_StartOrJump ==
    [][(last'.input \in {"Space", "click"} /\ updates = <<>>
                                             /\ click = "none") =>
          IF gameState.isPlaying
          THEN game' = jump(game) /\ updates' = updates
          ELSE game' = startGame(game) /\ updates' = <<"start">>
      ]_vars

\* C14: an input that arrives in the Idle or GameOver phase and does not
\* start a run (a lane key, another key, a click in GameOver) leaves the lane
\* index, the player's position, the airborne flag and the velocity as they
\* were.
C14_InvalidIgnored ==
    [][(last'.input # "none" /\ updates = <<>> /\ click = "none"
            /\ ~gameState.isPlaying /\ updates' = <<>>) =>
          /\ game'.currentLane = game.currentLane
          /\ game'.player = game.player
          /\ game'.isJumping = game.isJumping
          /\ game'.jumpVelocity = game.jumpVelocity
      ]_vars

\* a lane key has been ignored in the GameOver phase with the player in a
\* side lane
C14_LaneKeyInGameOver ==
    /\ Phase = "GameOver"
    /\ updates = <<>>
    /\ last.input \in {"ArrowLeft", "KeyA", "ArrowRight", "KeyD"}
    /\ game.currentLane # DefaultLane

\* C15: a jump input handled while the player is airborne leaves the
\* velocity, the player's position and the airborne flag as they were.
C15_JumpWhileAirborne ==
    [][(last'.input \in {"Space", "click"} /\ updates = <<>>
            /\ gameState.isPlaying /\ game.isJumping) =>
          /\ game'.jumpVelocity = game.jumpVelocity
          /\ game'.player = game.player
          /\ game'.isJumping
      ]_vars

\* a jump input has been handled with the player above the ground
C15_JumpedInTheAir ==
    /\ gameState.isPlaying
    /\ last.input \in {"Space", "click"}
    /\ game.isJumping
    /\ game.player.y > GroundLevel

\* C16: the lane index is always 0, 1 or 2; a left key handled in lane 0
\* and a right key handled in lane 2 leave the lane index and the player's
\* position as they were.
C16_LaneBounds ==
    [][/\ game'.currentLane \in 0..2
       /\ (updates = <<>> /\ gameState.isPlaying /\ last'.input # "none") =>
             /\ (last'.input \in {"ArrowLeft", "KeyA"} /\ game.currentLane = 0)
                    => (game'.currentLane = 0 /\ game'.player = game.player)
             /\ (last'.input \in {"ArrowRight", "KeyD"} /\ game.currentLane = 2)
                    => (game'.currentLane = 2 /\ game'.player = game.player)
      ]_vars

\* a left key has been handled in a run with the player in lane 0
C16_LeftAtLeftmost ==
    /\ gameState.isPlaying
    /\ last.input \in {"ArrowLeft", "KeyA"}
    /\ last.lane = 0
    /\ game.currentLane = 0

\* C17: in every state the player's horizontal position is the offset of
\* the current lane.
C17_SnappedToLane ==
    /\ game.currentLane \in 0..2
    /\ game.player.x = lanes[game.currentLane + 1]

\* a run that ended with the player in a side lane has been restarted
C17_RestartFromSideLane ==
    /\ updates = <<"start">>
    /\ gameState.isGameOver
    /\ last.lane # DefaultLane
    /\ game.currentLane = DefaultLane

\* C18: a tick never lowers the speed, and every startGame call and the
\* render that starts the run leave the speed at the base value.
C18_SpeedRamp ==
    [][/\ tick' = tick + 1 => game'.speed >= game.speed
       /\ updates' = Append(updates, "start") => game'.speed = BaseSpeed
       /\ (updates # <<>> /\ animation' = "effect") => game'.speed = BaseSpeed
      ]_vars

\* the run after a restart has sped up again
C18_SecondRunFaster ==
    /\ gameState.isPlaying
    /\ runs > 1
    /\ gameState.highScore > 0
    /\ animation = "frame"
    /\ game.speed > BaseSpeed + SpeedIncrement

\* C19: in every state the airborne flag is set exactly when the
\* vertical velocity is not zero or the player is above the ground.
C19_AirborneIffMoving ==
    game.isJumping <=>
        (game.jumpVelocity # 0 \/ game.player.y > GroundLevel)

\* startGame has just run after a game over in the middle of a jump
C19_RestartedInTheAir ==
    /\ gameState.isGameOver
    /\ updates = <<"start">>
    /\ game.isJumping
    /\ game.player.y = GroundLevel

\* C20: while the component is mounted the phase changes only from Idle to
\* Playing, from Playing to GameOver and from GameOver to Playing; Idle is
\* never entered again once it has been left.
C20_PhaseTransitions ==
    [][mounted' =>
          \/ Phase' = Phase
          \/ Phase = "Idle" /\ Phase' = "Playing"
          \/ Phase = "Playing" /\ Phase' = "GameOver"
          \/ Phase = "GameOver" /\ Phase' = "Playing"]_vars

\* a second run has ended: every transition has been taken
C20_SecondGameOver ==
    /\ Phase = "GameOver"
    /\ runs = MaxRuns
    /\ updates = <<>>

C22_TeardownUndoesInit ==
    ~mounted => (disposed = 1 /\ resize = 0)

\* C23: while the speed is below 2 units per tick, a tick that leaves the
\* player on the ground never takes an obstacle of the player's lane from
\* before the depth window to beyond it, and reports the collision when it
\* takes it into the window; so with a player who stays on the ground of
\* one lane no run that is on has an obstacle of that lane at or beyond the
\* far end of the window.
C23_NoPassThrough ==
    /\ [](Phase = "Playing" /\ updates = <<>> /\ ~game.isJumping =>
            \A i \in DOMAIN game.obstacles :
                game.obstacles[i].x = game.player.x =>
                    game.obstacles[i].z < PlayerDepth + DepthWindow)
    /\ [][(/\ tick' = tick + 1
           /\ game.speed < 2 * DepthWindow
           /\ game'.player.y = GroundLevel) =>
              \A i \in DOMAIN game.obstacles :
                  LET o == game.obstacles[i]
                  IN  (o.x = game.player.x /\ o.z <= PlayerDepth - DepthWindow) =>
                          \E j \in DOMAIN game'.obstacles :
                              LET q == game'.obstacles[j]
                              IN  /\ q.id = o.id
                                  /\ q.z < PlayerDepth + DepthWindow
                                  /\ q.z > PlayerDepth - DepthWindow =>
                                         \E k \in DOMAIN updates' :
                                             updates'[k] = "gameOver"]_vars

\* a run ended by an obstacle that reached a player standing in its lane,
\* while an obstacle of another lane went past
C23_StoppedInTheWindow ==
    /\ Phase = "GameOver"
    /\ updates = <<>>
    /\ game.player.y = GroundLevel
    /\ ~game.isJumping
    /\ \E i \in DOMAIN game.obstacles :
           /\ game.obstacles[i].x = game.player.x
           /\ Abs(game.obstacles[i].z - PlayerDepth) < DepthWindow
    /\ \E i \in DOMAIN game.obstacles :
           /\ game.obstacles[i].x # game.player.x
           /\ game.obstacles[i].z > PlayerDepth - DepthWindow

\* C24: a tick creates at most one obstacle and at most one gem; each is at
\* the spawn depth, which a move in the tick that created it would have
\* changed, and in one of the three lane offsets.
C24_SpawnedAtTheBack ==
    [][tick' = tick + 1 =>
          LET newObstacles ==
                  {j \in DOMAIN game'.obstacles :
                      \A i \in DOMAIN game.obstacles :
                          game.obstacles[i].id # game'.obstacles[j].id}
              newGems ==
                  {j \in DOMAIN game'.gems :
                      \A i \in DOMAIN game.gems :
                          game.gems[i].id # game'.gems[j].id}
          IN  /\ Cardinality(newObstacles) <= 1
              /\ Cardinality(newGems) <= 1
              /\ \A j \in newObstacles :
                     /\ game'.obstacles[j].z = SpawnDepth
                     /\ game'.obstacles[j].x \in {lanes[l] : l \in DOMAIN lanes}
              /\ \A j \in newGems :
                     /\ game'.gems[j].z = SpawnDepth
                     /\ game'.gems[j].x \in {lanes[l] : l \in DOMAIN lanes}
      ]_vars

\* the second tick of a run has moved the obstacle the first tick created
\* and has created a gem, which is still at the spawn depth
C24_SpawnedBehindMoved ==
    /\ tick = 2
    /\ Len(game.obstacles) = 1
    /\ Len(game.gems) = 1
    /\ game.obstacles[1].z = SpawnDepth + BaseSpeed + SpeedIncrement
    /\ game.gems[1].z = SpawnDepth

\* C25: every step of the lane variant whose player gets no lane input
\* while a run is on is, seen without the lane index, a step of the variant
\* without lanes or changes nothing that variant has.
C25_RefinesPlain ==
    [][\/ NextPlain
       \/ UNCHANGED <<gameState, Plain(game), animation, updates, mounted>>
      ]_vars

\* a run of the lane variant without lane input that jumped, collected a gem
\* and ended in the air
C25_RunInTheDefaultLane ==
    /\ Phase = "GameOver"
    /\ updates = <<>>
    /\ game.currentLane = DefaultLane
    /\ gameState.highScore = GemPoints
    /\ game.isJumping

\* the ticks an airborne player has left at most, from the velocity: a jump
\* starts at JumpImpulse, loses Gravity a tick and is over before the
\* velocity has gone below -JumpImpulse - Gravity
AirTicksLeft(g) ==
    IF g.isJumping THEN (g.jumpVelocity + JumpImpulse) \div Gravity + 2 ELSE 0

\* C26: an airborne player has between 1 and 2 * JumpImpulse / Gravity + 2
\* ticks left; every tick of a run that is on takes one or more of them
\* away, and the tick that ends the jump leaves the player at ground level
\* with velocity 0.
C26_JumpEnds ==
    /\ [](game.isJumping =>
            /\ AirTicksLeft(game) >= 1
            /\ AirTicksLeft(game) <= (2 * JumpImpulse) \div Gravity + 2)
    /\ [][(tick' = tick + 1 /\ game.isJumping) =>
             /\ AirTicksLeft(game') < AirTicksLeft(game)
             /\ ~game'.isJumping =>
                    /\ game'.player.y = GroundLevel
                    /\ game'.jumpVelocity = 0]_vars

\* a jump that took all its ticks has ended while the run is on
C26_FullJumpOver ==
    /\ gameState.isPlaying
    /\ last.landed
    /\ ~game.isJumping
    /\ game.jumpVelocity = 0
    /\ tick >= InputFrom + (2 * JumpImpulse) \div Gravity + 2

\* C27: isPlaying and isGameOver are never both true; the score of the
\* simulation is a multiple of 10 and not negative, and no tick lowers it.
C27_FlagsAndScore ==
    /\ [](/\ ~(gameState.isPlaying /\ gameState.isGameOver)
          /\ game.score >= 0
          /\ game.score % GemPoints = 0)
    /\ [][tick' = tick + 1 => game'.score >= game.score]_vars

\* a second run is on, after a run that scored
C27_PlayingAgainAfterScore ==
    /\ gameState.isPlaying
    /\ ~gameState.isGameOver
    /\ runs > 1
    /\ gameState.highScore >= GemPoints
    /\ game.score = 0
    /\ updates = <<>>

====
